---- MODULE Spec2Model ----
(***************************************************************************)
(* Model of NissanLeafCharger.py: the NissanLeafCharger calculator object  *)
(* and the NissanLeafGUI handlers that drive it.                           *)
(*                                                                         *)
(* Python floats are modelled as exact rationals in lowest terms, plus the *)
(* two special values inf and nan; every arithmetic step of the source is  *)
(* performed in the order the source performs it, without rounding.        *)
(* Python strings that are only compared or displayed are TLA+ strings;    *)
(* the text of the two entry fields, which the program parses, is a        *)
(* sequence of one-character strings.                                      *)
(***************************************************************************)
EXTENDS Integers, Sequences, FiniteSets, TLC

VARIABLES
  battery_capacity,      \* NissanLeafCharger.battery_capacity
  battery_health,        \* NissanLeafCharger.battery_health
  current_charge,        \* NissanLeafCharger.current_charge
  charging_rate,         \* NissanLeafCharger.charging_rate
  ret,                   \* outcome of the latest direct calculate_charging_time call
  formatted,             \* string returned by the latest direct format_time call
  battery_var,           \* NissanLeafGUI.battery_var   (combobox text)
  charging_var,          \* NissanLeafGUI.charging_var  (combobox text)
  health_var,            \* NissanLeafGUI.health_var    (entry text)
  current_var,           \* NissanLeafGUI.current_var   (entry text)
  start_time,            \* NissanLeafGUI.start_time
  time_80_label,         \* text of the four result labels
  time_100_label,
  completion_80_label,
  completion_100_label,
  pc                     \* "updated" right after update_calculations completed,
                         \* "edited" once an input was edited since, "core" without GUI

chargerVars == <<battery_capacity, battery_health, current_charge, charging_rate>>
callVars    == <<ret, formatted>>
inputVars   == <<battery_var, charging_var, health_var, current_var>>
labelVars   == <<time_80_label, time_100_label, completion_80_label,
                 completion_100_label>>
vars == <<chargerVars, callVars, inputVars, start_time, labelVars, pc>>

(***************************************************************************)
(* Bounds of the model.                                                    *)
(***************************************************************************)
\* Percentages handed to the charger directly are the multiples of 10 from
\* MaxOutOfRange steps below 0 to MaxOutOfRange steps above 100.
MaxOutOfRange == 2

(***************************************************************************)
(* Float arithmetic, as exact rationals n/d in lowest terms with d > 0.    *)
(***************************************************************************)
Abs(i) == IF i < 0 THEN -i ELSE i

RECURSIVE GCD(_, _)
GCD(a, b) == IF b = 0 THEN a ELSE GCD(b, a % b)

LCM(a, b) == (a \div GCD(a, b)) * b

Fin(n, d) ==
  LET g == GCD(Abs(n), d)
  IN  [k |-> "fin", n |-> n \div g, d |-> d \div g]

Num(i) == Fin(i, 1)
Inf == [k |-> "inf", n |-> 1, d |-> 0]      \* float('inf')
NaN == [k |-> "nan", n |-> 0, d |-> 0]      \* float('nan')

IsFin(x) == x.k = "fin"

\* a * b, a / b, a - b on finite floats
PyMul(a, b) ==
  LET g1 == GCD(Abs(a.n), b.d)
      g2 == GCD(Abs(b.n), a.d)
  IN  Fin((a.n \div g1) * (b.n \div g2), (a.d \div g2) * (b.d \div g1))

PyTrueDiv(a, b) ==
  IF b.n < 0 THEN PyMul(a, Fin(-b.d, -b.n)) ELSE PyMul(a, Fin(b.d, b.n))

PySub(a, b) ==
  LET l == LCM(a.d, b.d)
  IN  Fin(a.n * (l \div a.d) - b.n * (l \div b.d), l)

\* a <= b, a < b, a == b on floats; every comparison with nan is False
PyLe(a, b) ==
  CASE a.k = "nan" \/ b.k = "nan" -> FALSE
    [] a.k = "inf" -> a.n < 0 \/ b = a
    [] b.k = "inf" -> b.n > 0
    [] OTHER -> LET l == LCM(a.d, b.d)
                IN  a.n * (l \div a.d) <= b.n * (l \div b.d)

PyEq(a, b) == a.k # "nan" /\ b.k # "nan" /\ a = b

PyLt(a, b) == PyLe(a, b) /\ ~PyEq(a, b)

\* int(x) on a finite float: truncation toward zero
PyInt(x) == IF x.n >= 0 THEN x.n \div x.d ELSE -((-x.n) \div x.d)

(***************************************************************************)
(* class NissanLeafCharger                                                 *)
(***************************************************************************)
CHARGING_RATES ==
  [key \in {"Level 1 (120V)", "Level 2 (240V) 3.3kW", "Level 2 (240V) 6.6kW"} |->
     CASE key = "Level 1 (120V)" -> Fin(14, 10)
       [] key = "Level 2 (240V) 3.3kW" -> Fin(33, 10)
       [] OTHER -> Fin(66, 10)]

BATTERY_CAPACITIES ==
  [key \in {"40 kWh", "62 kWh"} |-> IF key = "40 kWh" THEN Num(40) ELSE Num(62)]

\* outcomes of a call
Return(v) == [kind |-> "return", value |-> v, exc |-> "", message |-> ""]
Raise(exc, msg) == [kind |-> "raise", value |-> NaN, exc |-> exc, message |-> msg]

\* 0 <= x <= 100
InPercentRange(x) == PyLe(Num(0), x) /\ PyLe(x, Num(100))

\* fault: the guard written as charging_rate < 0
RateNegative(rate) == PyLt(rate, Num(0))

\* self.charging_rate <= 0
RateNotPositive(rate) == PyLe(rate, Num(0))

\* fault: the surcharge left out
AddInefficiencyOmitted(energy_needed) == energy_needed

\* energy_needed *= 1.1
AddInefficiency(energy_needed) == PyMul(energy_needed, Fin(11, 10))

\* energy_needed / self.charging_rate
DivideByRate(energy_needed, rate) ==
  IF rate.n = 0 THEN Raise("ZeroDivisionError", "float division by zero")
  ELSE Return(PyTrueDiv(energy_needed, rate))

\* calculate_charging_time(self, target_percentage), as a function of the
\* four fields it reads and its argument
calculate_charging_time(capacity, health, current, rate, target_percentage) ==
  IF ~InPercentRange(target_percentage)
  THEN Raise("ValueError", "Target percentage must be between 0 and 100")
  ELSE
    LET actual_capacity == PyMul(capacity, PyTrueDiv(health, Num(100)))
        current_energy  == PyMul(actual_capacity, PyTrueDiv(current, Num(100)))
        target_energy   == PyMul(actual_capacity, PyTrueDiv(target_percentage, Num(100)))
        energy_needed   == PySub(target_energy, current_energy)
    IN  IF RateNotPositive(rate) THEN Return(Inf)
        ELSE DivideByRate(AddInefficiency(energy_needed), rate)

(***************************************************************************)
(* NissanLeafGUI.format_time and calculate_completion_time                 *)
(***************************************************************************)
RECURSIVE Concat(_)
Concat(parts) == IF parts = <<>> THEN "" ELSE Head(parts) \o Concat(Tail(parts))

\* hours_int = int(hours)
HoursInt(hours) == PyInt(hours)
\* fault: minutes rounded to the nearest whole minute instead of truncated
MinutesRounded(hours) ==
  LET m == PyMul(PySub(hours, Num(PyInt(hours))), Num(60))
  IN  IF m.n >= 0 THEN (2 * m.n + m.d) \div (2 * m.d) ELSE PyInt(m)

\* minutes = int((hours - hours_int) * 60)
Minutes(hours) == PyInt(PyMul(PySub(hours, Num(HoursInt(hours))), Num(60)))

\* fault: the "elif minutes == 0" branch missing
format_time_parts_both_terms(hours) ==
  IF PyEq(hours, Inf) THEN <<"Invalid input">>
  ELSE IF HoursInt(hours) = 0 THEN <<ToString(Minutes(hours)), " minutes">>
  ELSE <<ToString(HoursInt(hours)), " hours ", ToString(Minutes(hours)), " minutes">>

\* The pieces of the string format_time returns: the literal text of the
\* f-string and its interpolated numbers, in order.  hours is finite or inf.
format_time_parts(hours) ==
  IF PyEq(hours, Inf) THEN <<"Invalid input">>
  ELSE LET hours_int == HoursInt(hours)
           minutes   == Minutes(hours)
       IN  IF hours_int = 0 THEN <<ToString(minutes), " minutes">>
           ELSE IF minutes = 0 THEN <<ToString(hours_int), " hours">>
           ELSE <<ToString(hours_int), " hours ", ToString(minutes), " minutes">>

format_time(hours) == Concat(format_time_parts(hours))

(***************************************************************************)
(* NissanLeafGUI: text parsing                                             *)
(***************************************************************************)
\* Entry text is a sequence of characters drawn from EntryChars.  The
\* alphabet has no exponent letter, underscore or upper-case letter, so the
\* float() grammar over it is: optional sign, then digits with at most one
\* point, or one of the words "nan" and "inf".
Digits == {"0", "1", "2", "3", "4", "5", "6", "7", "8", "9"}
EntryChars == Digits \cup {" ", "-", "+", ".", "a", "b", "c", "n", "i", "f"}

DigitValue(c) ==
  CASE c = "0" -> 0 [] c = "1" -> 1 [] c = "2" -> 2 [] c = "3" -> 3
    [] c = "4" -> 4 [] c = "5" -> 5 [] c = "6" -> 6 [] c = "7" -> 7
    [] c = "8" -> 8 [] OTHER -> 9

RECURSIVE DigitsValue(_)
DigitsValue(s) ==
  IF s = <<>> THEN 0
  ELSE DigitsValue(SubSeq(s, 1, Len(s) - 1)) * 10 + DigitValue(s[Len(s)])

RECURSIVE Pow10(_)
Pow10(e) == IF e = 0 THEN 1 ELSE 10 * Pow10(e - 1)

AllDigits(s) == \A i \in 1..Len(s) : s[i] \in Digits

\* str.strip()
RECURSIVE LStrip(_)
LStrip(s) == IF s # <<>> /\ Head(s) = " " THEN LStrip(Tail(s)) ELSE s

RECURSIVE RStrip(_)
RStrip(s) ==
  IF s # <<>> /\ s[Len(s)] = " " THEN RStrip(SubSeq(s, 1, Len(s) - 1)) ELSE s

Strip(s) == RStrip(LStrip(s))

\* -x on a float
PyNeg(x) == [x EXCEPT !.n = -x.n]

\* float(s) for an unsigned literal
FloatUnsigned(u) ==
  LET dots == {i \in 1..Len(u) : u[i] = "."}
  IN  CASE u = <<"n", "a", "n">> -> Return(NaN)
        [] u = <<"i", "n", "f">> -> Return(Inf)
        [] dots = {} /\ u # <<>> /\ AllDigits(u) -> Return(Num(DigitsValue(u)))
        [] Cardinality(dots) = 1 ->
             LET p == CHOOSE i \in dots : TRUE
                 whole == SubSeq(u, 1, p - 1)
                 frac == SubSeq(u, p + 1, Len(u))
             IN  IF AllDigits(whole) /\ AllDigits(frac) /\ Len(whole) + Len(frac) > 0
                 THEN Return(Fin(DigitsValue(whole \o frac), Pow10(Len(frac))))
                 ELSE Raise("ValueError", "could not convert string to float")
        [] OTHER -> Raise("ValueError", "could not convert string to float")

\* float(s) for s already stripped
PyFloat(s) ==
  IF s # <<>> /\ Head(s) \in {"-", "+"}
  THEN LET r == FloatUnsigned(Tail(s))
       IN  IF r.kind = "return" /\ Head(s) = "-" THEN Return(PyNeg(r.value)) ELSE r
  ELSE FloatUnsigned(s)

validate_number(value) ==
  IF Strip(value) = <<>> THEN Num(0)
  ELSE LET r == PyFloat(Strip(value))
       IN  IF r.kind = "raise" THEN Num(0) ELSE r.value

(***************************************************************************)
(* NissanLeafGUI: completion time                                          *)
(***************************************************************************)
\* round() to the nearest integer, ties to even, of a finite float >= 0
RoundHalfEven(x) ==
  LET q == x.n \div x.d
      r == x.n % x.d
  IN  IF 2 * r < x.d THEN q
      ELSE IF 2 * r > x.d THEN q + 1
      ELSE IF q % 2 = 0 THEN q ELSE q + 1

\* timedelta(hours=hours): whole seconds and microseconds, 0 <= usec < 10^6
TimedeltaHours(hours) ==
  LET s == PyMul(hours, Num(3600))
      whole == s.n \div s.d
      us == RoundHalfEven(PyMul(PySub(s, Num(whole)), Num(1000000)))
  IN  IF us = 1000000 THEN [sec |-> whole + 1, usec |-> 0]
      ELSE [sec |-> whole, usec |-> us]

\* datetime + timedelta
AddTimedelta(dt, td) ==
  [sec |-> dt.sec + td.sec + (dt.usec + td.usec) \div 1000000,
   usec |-> (dt.usec + td.usec) % 1000000]

\* strftime('%Y-%m-%d %H:%M:%S') prints the whole seconds of the timestamp
\* and drops its microseconds; the text is represented by the count of whole
\* seconds since the reference second.
Strftime(dt) == "t=" \o ToString(dt.sec)

calculate_completion_time(st, hours) ==
  IF PyEq(hours, Inf) THEN "Invalid input"
  ELSE Strftime(AddTimedelta(st, TimedeltaHours(hours)))

(***************************************************************************)
(* The charger object used directly: field assignments and calls.          *)
(***************************************************************************)
Percents == {10 * k : k \in (-MaxOutOfRange)..(10 + MaxOutOfRange)}
Capacities == {BATTERY_CAPACITIES[key] : key \in DOMAIN BATTERY_CAPACITIES}
Rates == {Num(0)} \cup {CHARGING_RATES[key] : key \in DOMAIN CHARGING_RATES}

NoGUI == "<no gui>"

\* NissanLeafCharger.__init__, with no GUI attached
InitCharger ==
  /\ battery_capacity = Num(40)
  /\ battery_health = Num(100)
  /\ current_charge = Num(0)
  /\ charging_rate = Fin(66, 10)
  /\ ret = <<>>
  /\ formatted = <<>>
  /\ battery_var = NoGUI /\ charging_var = NoGUI
  /\ health_var = <<>> /\ current_var = <<>>
  /\ start_time = [sec |-> 0, usec |-> 0]
  /\ time_80_label = "" /\ time_100_label = ""
  /\ completion_80_label = "" /\ completion_100_label = ""
  /\ pc = "core"

Discard == ret' = <<>> /\ formatted' = <<>>
guiVars == <<inputVars, start_time, labelVars, pc>>

SetBatteryCapacity(c) ==
  /\ pc = "core"
  /\ battery_capacity' = c
  /\ Discard
  /\ UNCHANGED <<battery_health, current_charge, charging_rate, guiVars>>

SetBatteryHealth(h) ==
  /\ pc = "core"
  /\ battery_health' = Num(h)
  /\ Discard
  /\ UNCHANGED <<battery_capacity, current_charge, charging_rate, guiVars>>

SetCurrentCharge(c) ==
  /\ pc = "core"
  /\ current_charge' = Num(c)
  /\ Discard
  /\ UNCHANGED <<battery_capacity, battery_health, charging_rate, guiVars>>

SetChargingRate(r) ==
  /\ pc = "core"
  /\ charging_rate' = r
  /\ Discard
  /\ UNCHANGED <<battery_capacity, battery_health, current_charge, guiVars>>

\* fault: the call also records the target as the new current charge
CalculateChargingTimeCharges(target) ==
  /\ pc = "core"
  /\ ret' = <<[target |-> Num(target),
               outcome |-> calculate_charging_time(battery_capacity, battery_health,
                             current_charge, charging_rate, Num(target))]>>
  /\ formatted' = <<>>
  /\ current_charge' = Num(target)
  /\ UNCHANGED <<battery_capacity, battery_health, charging_rate, guiVars>>

\* a call charger.calculate_charging_time(target)
CalculateChargingTime(target) ==
  /\ pc = "core"
  /\ ret' = <<[target |-> Num(target),
               outcome |-> calculate_charging_time(battery_capacity, battery_health,
                             current_charge, charging_rate, Num(target))]>>
  /\ formatted' = <<>>
  /\ UNCHANGED <<chargerVars, guiVars>>

\* format_time applied to the duration the latest call returned
FormatTime ==
  /\ pc = "core"
  /\ ret # <<>> /\ ret[1].outcome.kind = "return"
  /\ formatted = <<>>
  /\ formatted' = format_time_parts(ret[1].outcome.value)
  /\ UNCHANGED <<chargerVars, ret, guiVars>>

Next ==
  \/ \E c \in Capacities : SetBatteryCapacity(c)
  \/ \E h \in Percents : SetBatteryHealth(h)
  \/ \E c \in Percents : SetCurrentCharge(c)
  \/ \E r \in Rates : SetChargingRate(r)
  \/ \E t \in Percents : CalculateChargingTime(t)
  \/ FormatTime

Spec == InitCharger /\ [][Next]_vars

(***************************************************************************)
(* NissanLeafGUI: handlers                                                 *)
(***************************************************************************)
\* fault: the handler clears the two duration labels only
ClearTimeLabelsOnly(labels) ==
  [labels EXCEPT !.time_80 = "", !.time_100 = ""]

\* except (ValueError, Exception): every result label is cleared
ClearLabels(labels) == [name \in DOMAIN labels |-> ""]

\* The try block of update_calculations, in source order.  Each assignment
\* made before an exception is raised stays made; an exception leaves the
\* try block for the handler, which clears the labels.

\* lines 311-315: the four label.config calls
ConfigureLabels(charger, labels, st, time_80, time_100) ==
  IF time_80.kind = "raise" \/ time_100.kind = "raise"
  THEN [charger |-> charger, labels |-> ClearLabels(labels)]
  ELSE [charger |-> charger,
        labels |-> [time_80 |-> format_time(time_80.value),
                    time_100 |-> format_time(time_100.value),
                    completion_80 |-> calculate_completion_time(st, time_80.value),
                    completion_100 |-> calculate_completion_time(st, time_100.value)]]

\* lines 303-309: the two range checks, then the two calls
CheckAndCalculate(charger, labels, st) ==
  IF ~InPercentRange(charger.battery_health) \/ ~InPercentRange(charger.current_charge)
  THEN [charger |-> charger, labels |-> ClearLabels(labels)]      \* ValueError
  ELSE ConfigureLabels(charger, labels, st,
         calculate_charging_time(charger.battery_capacity, charger.battery_health,
                                 charger.current_charge, charger.charging_rate, Num(80)),
         calculate_charging_time(charger.battery_capacity, charger.battery_health,
                                 charger.current_charge, charger.charging_rate, Num(100)))

\* lines 296-301: the rate lookup and the two entry fields
ReadRateAndEntries(cv, hv, cuv, charger, labels, st) ==
  IF cv \notin DOMAIN CHARGING_RATES
  THEN [charger |-> charger, labels |-> ClearLabels(labels)]      \* KeyError
  ELSE CheckAndCalculate([charger EXCEPT !.charging_rate = CHARGING_RATES[cv],
                                         !.battery_health = validate_number(hv),
                                         !.current_charge = validate_number(cuv)],
                         labels, st)

\* update_calculations on the four input texts, the charger fields it
\* overwrites and the labels it configures
update_calculations(bv, cv, hv, cuv, charger, labels, st) ==
  IF bv \notin DOMAIN BATTERY_CAPACITIES
  THEN [charger |-> charger, labels |-> ClearLabels(labels)]      \* KeyError
  ELSE ReadRateAndEntries(cv, hv, cuv,
         [charger EXCEPT !.battery_capacity = BATTERY_CAPACITIES[bv]], labels, st)

Charger ==
  [battery_capacity |-> battery_capacity, battery_health |-> battery_health,
   current_charge |-> current_charge, charging_rate |-> charging_rate]

Labels ==
  [time_80 |-> time_80_label, time_100 |-> time_100_label,
   completion_80 |-> completion_80_label, completion_100 |-> completion_100_label]

\* the state left by update_calculations read from the given input texts
Updated(bv, cv, hv, cuv, charger, labels, st) ==
  \E u \in {update_calculations(bv, cv, hv, cuv, charger, labels, st)} :
      /\ battery_capacity' = u.charger.battery_capacity
      /\ battery_health' = u.charger.battery_health
      /\ current_charge' = u.charger.current_charge
      /\ charging_rate' = u.charger.charging_rate
      /\ time_80_label' = u.labels.time_80
      /\ time_100_label' = u.labels.time_100
      /\ completion_80_label' = u.labels.completion_80
      /\ completion_100_label' = u.labels.completion_100
      /\ pc' = "updated"

\* the texts the entries can hold
HealthTexts ==
  { <<"1", "0", "0">>, <<"1", "5", "0">>, <<"n", "a", "n">>, <<" ", "7", ".", "5">> }
CurrentTexts ==
  { <<"0">>, <<"9", "5">>, <<"-", "5">>, <<"a", "b", "c">> }
\* the texts the editable comboboxes can hold
BatteryTexts == DOMAIN BATTERY_CAPACITIES \cup {"4"}
ChargingTexts == DOMAIN CHARGING_RATES \cup {"Level 3"}
\* datetime.now() at construction
StartTimes == {[sec |-> 0, usec |-> 999999]}

\* NissanLeafGUI.__init__: a fresh charger, the widgets of setup_gui with
\* their initial texts, then the update_calculations call that ends setup_gui
InitGUI ==
  \E st \in StartTimes :
    \E u \in {update_calculations("40 kWh", "Level 2 (240V) 6.6kW",
                <<"1", "0", "0">>, <<"0">>,
                [battery_capacity |-> Num(40), battery_health |-> Num(100),
                 current_charge |-> Num(0), charging_rate |-> Fin(66, 10)],
                [time_80 |-> "", time_100 |-> "",
                 completion_80 |-> "", completion_100 |-> ""], st)} :
        /\ start_time = st
        /\ battery_var = "40 kWh"
        /\ charging_var = "Level 2 (240V) 6.6kW"
        /\ health_var = <<"1", "0", "0">>
        /\ current_var = <<"0">>
        /\ battery_capacity = u.charger.battery_capacity
        /\ battery_health = u.charger.battery_health
        /\ current_charge = u.charger.current_charge
        /\ charging_rate = u.charger.charging_rate
        /\ time_80_label = u.labels.time_80
        /\ time_100_label = u.labels.time_100
        /\ completion_80_label = u.labels.completion_80
        /\ completion_100_label = u.labels.completion_100
        /\ ret = <<>> /\ formatted = <<>>
        /\ pc = "updated"

\* The user changes the text of a widget; no bound event has run yet.
EditHealth(text) ==
  /\ pc \in {"updated", "edited"}
  /\ health_var' = text
  /\ pc' = "edited"
  /\ UNCHANGED <<chargerVars, callVars, battery_var, charging_var, current_var,
                 start_time, labelVars>>

EditCurrent(text) ==
  /\ pc \in {"updated", "edited"}
  /\ current_var' = text
  /\ pc' = "edited"
  /\ UNCHANGED <<chargerVars, callVars, battery_var, charging_var, health_var,
                 start_time, labelVars>>

TypeBattery(text) ==
  /\ pc \in {"updated", "edited"}
  /\ battery_var' = text
  /\ pc' = "edited"
  /\ UNCHANGED <<chargerVars, callVars, charging_var, health_var, current_var,
                 start_time, labelVars>>

TypeCharging(text) ==
  /\ pc \in {"updated", "edited"}
  /\ charging_var' = text
  /\ pc' = "edited"
  /\ UNCHANGED <<chargerVars, callVars, battery_var, health_var, current_var,
                 start_time, labelVars>>

\* <KeyRelease> on either entry: validate_and_update, which ends by calling
\* update_calculations
validate_and_update ==
  /\ pc \in {"updated", "edited"}
  /\ LET health == validate_number(health_var)
         hv == IF PyLt(health, Num(0)) \/ PyLt(Num(100), health)
               THEN <<"1", "0", "0">> ELSE health_var
         current == validate_number(current_var)
         cuv == IF PyLt(current, Num(0)) \/ PyLt(Num(100), current)
                THEN <<"0">> ELSE current_var
     IN  /\ health_var' = hv
         /\ current_var' = cuv
         /\ Updated(battery_var, charging_var, hv, cuv, Charger, Labels, start_time)
  /\ UNCHANGED <<callVars, battery_var, charging_var, start_time>>

\* <<ComboboxSelected>> on the battery combobox: the chosen value is put in
\* battery_var and update_calculations runs
SelectBattery(key) ==
  /\ pc \in {"updated", "edited"}
  /\ battery_var' = key
  /\ Updated(key, charging_var, health_var, current_var, Charger, Labels, start_time)
  /\ UNCHANGED <<callVars, charging_var, health_var, current_var, start_time>>

\* <<ComboboxSelected>> on the charging-rate combobox
SelectCharging(key) ==
  /\ pc \in {"updated", "edited"}
  /\ charging_var' = key
  /\ Updated(battery_var, key, health_var, current_var, Charger, Labels, start_time)
  /\ UNCHANGED <<callVars, battery_var, health_var, current_var, start_time>>

NextGUI ==
  \/ \E text \in HealthTexts : EditHealth(text)
  \/ \E text \in CurrentTexts : EditCurrent(text)
  \/ \E text \in BatteryTexts : TypeBattery(text)
  \/ \E text \in ChargingTexts : TypeCharging(text)
  \/ validate_and_update
  \/ \E key \in DOMAIN BATTERY_CAPACITIES : SelectBattery(key)
  \/ \E key \in DOMAIN CHARGING_RATES : SelectCharging(key)

SpecGUI == InitGUI /\ [][NextGUI]_vars

(***************************************************************************)
(* Properties                                                              *)
(***************************************************************************)
Called == ret # <<>>
Outcome == ret[1].outcome
Target == ret[1].target

PercentagesInRange ==
  /\ InPercentRange(battery_health)
  /\ InPercentRange(current_charge)
  /\ InPercentRange(Target)

\* capacity x (health/100) x (target - current)/100 x 1.10 / rate
ClosedForm(capacity, health, current, rate, target) ==
  PyTrueDiv(
    PyMul(PyTrueDiv(PyMul(PyMul(capacity, PyTrueDiv(health, Num(100))),
                          PySub(target, current)),
                    Num(100)),
          Fin(110, 100)),
    rate)

\* C1: for capacity in {40, 62}, percentages in [0,100] with target above
\* current, and rate > 0, the call returns capacity x (health/100) x
\* (target - current)/100 x 1.10 / rate: the surcharge is applied once.
C1_SurchargedDuration ==
  (/\ Called
   /\ battery_capacity \in Capacities
   /\ PercentagesInRange
   /\ PyLt(current_charge, Target)
   /\ PyLt(Num(0), charging_rate))
  => Outcome = Return(ClosedForm(battery_capacity, battery_health, current_charge,
                                 charging_rate, Target))

C1_Witness ==
  /\ Called
  /\ battery_capacity = Num(62) /\ battery_health = Num(90)
  /\ current_charge = Num(20) /\ Target = Num(100)
  /\ charging_rate = Fin(33, 10)
  /\ Outcome = Return(Fin(1488, 100))

\* C2: for percentages in [0,100] and rate > 0, the call returns a
\* duration >= 0.
C2_DurationNonNegative ==
  (Called /\ PercentagesInRange /\ PyLt(Num(0), charging_rate))
  => (Outcome.kind = "return" /\ PyLe(Num(0), Outcome.value))

\* C3: whenever target <= current (percentages in [0,100]), the call
\* returns exactly 0 whatever the capacity, health and rate.
C3_ZeroAtOrAboveTarget ==
  (Called /\ PercentagesInRange /\ PyLe(Target, current_charge))
  => Outcome = Return(Num(0))

\* C4: with rate = 0 and percentages in [0,100], the call returns the
\* infinite sentinel; it raises nothing, so the division is never performed.
C4_ZeroRateIsInfinite ==
  (Called /\ PercentagesInRange /\ PyEq(charging_rate, Num(0)))
  => Outcome = Return(Inf)

C4_Witness ==
  /\ Called /\ PercentagesInRange
  /\ PyEq(charging_rate, Num(0))
  /\ PyLt(current_charge, Target)
  /\ Outcome = Return(Inf)

\* C5: if health, current or target lies outside [0,100], the call fails
\* with an error whose message names an offending field, and produces no
\* duration.
OffendingFieldMessages ==
  {m \in {"Battery health must be between 0 and 100",
          "Current charge must be between 0 and 100",
          "Target percentage must be between 0 and 100"} :
     \/ m = "Battery health must be between 0 and 100"
          /\ ~InPercentRange(battery_health)
     \/ m = "Current charge must be between 0 and 100"
          /\ ~InPercentRange(current_charge)
     \/ m = "Target percentage must be between 0 and 100"
          /\ ~InPercentRange(Target)}

C5_OutOfRangeRaises ==
  (Called /\ ~PercentagesInRange)
  => (Outcome.kind = "raise" /\ Outcome.message \in OffendingFieldMessages)

\* C6: the two documented scenarios, calculate_charging_time followed by
\* format_time: 40 kWh, 100%, 0% -> 80% at 6.6 kW is "5 hours 20 minutes";
\* 62 kWh, 90%, 20% -> 100% at 3.3 kW is "14 hours 52 minutes".
Scenario(capacity, health, current, rate, target) ==
  /\ Called /\ formatted # <<>>
  /\ battery_capacity = Num(capacity) /\ battery_health = Num(health)
  /\ current_charge = Num(current) /\ charging_rate = rate
  /\ Target = Num(target)

C6_DocumentedScenarios ==
  /\ Scenario(40, 100, 0, Fin(66, 10), 80)
       => (/\ formatted = <<"5", " hours ", "20", " minutes">>
           /\ Concat(formatted) = "5 hours 20 minutes")
  /\ Scenario(62, 90, 20, Fin(33, 10), 100)
       => (/\ formatted = <<"14", " hours ", "52", " minutes">>
           /\ Concat(formatted) = "14 hours 52 minutes")

C6_Witness ==
  /\ Scenario(62, 90, 20, Fin(33, 10), 100)
  /\ Concat(formatted) = "14 hours 52 minutes"

\* C7.  H = floor(duration) and M = floor((duration - H) x 60), each found
\* by integer division of the duration's numerator.
WholeHours(x) == x.n \div x.d
WholeMinutes(x) == ((x.n - WholeHours(x) * x.d) * 60) \div x.d
HasHoursTerm(parts) == \E i \in 1..Len(parts) : parts[i] \in {" hours", " hours "}
HasMinutesTerm(parts) == \E i \in 1..Len(parts) : parts[i] = " minutes"
ShownHours(parts) == parts[1]
ShownMinutes(parts) == parts[Len(parts) - 1]

FormattedFiniteNonNegative ==
  /\ Called /\ formatted # <<>>
  /\ Outcome.kind = "return" /\ IsFin(Outcome.value)
  /\ PyLe(Num(0), Outcome.value)

\* C7 as stated: for a finite duration >= 0, 0 <= M <= 59, the hours term
\* is present iff H # 0 and the minutes term is present iff M # 0.
C7_TermsIffNonZero ==
  FormattedFiniteNonNegative =>
    LET H == WholeHours(Outcome.value)
        M == WholeMinutes(Outcome.value)
    IN  /\ M \in 0..59
        /\ HasHoursTerm(formatted) <=> H # 0
        /\ HasMinutesTerm(formatted) <=> M # 0
        /\ HasHoursTerm(formatted) => ShownHours(formatted) = ToString(H)
        /\ HasMinutesTerm(formatted) => ShownMinutes(formatted) = ToString(M)

\* C7 amended: for a finite duration >= 0, 0 <= M <= 59, the hours term is
\* present iff H # 0, and the minutes term is present iff M # 0 or H = 0
\* (a duration under one hour always shows its minutes, "0 minutes" included).
C7_TermsAmended ==
  FormattedFiniteNonNegative =>
    LET H == WholeHours(Outcome.value)
        M == WholeMinutes(Outcome.value)
    IN  /\ M \in 0..59
        /\ HasHoursTerm(formatted) <=> H # 0
        /\ HasMinutesTerm(formatted) <=> (M # 0 \/ H = 0)
        /\ HasHoursTerm(formatted) => ShownHours(formatted) = ToString(H)
        /\ HasMinutesTerm(formatted) => ShownMinutes(formatted) = ToString(M)

C7_Witness ==
  /\ FormattedFiniteNonNegative
  /\ Outcome.value = Num(0)
  /\ formatted = <<"0", " minutes">>

\* C8: for fixed capacity, health, current and target in range and rates
\* 0 < r1 <= r2, the duration at r2 is not greater than the duration at r1.
C8_MonotoneInRate ==
  (Called /\ PercentagesInRange /\ PyLt(Num(0), charging_rate))
  => \A r2 \in Rates :
       PyLe(charging_rate, r2) =>
         LET at_r2 == calculate_charging_time(battery_capacity, battery_health,
                        current_charge, r2, Target)
         IN  /\ Outcome.kind = "return" /\ at_r2.kind = "return"
             /\ PyLe(at_r2.value, Outcome.value)

\* A step of the charger used directly is a call exactly when it leaves a
\* returned outcome that has not been formatted yet.
IsCallStep == pc = "core" /\ ret' # <<>> /\ formatted' = <<>>

\* C9: a call leaves the four charger fields unchanged, and a call repeated
\* with the same target on the same fields returns what the previous call
\* returned.
C9_CallIsPure ==
  [][IsCallStep =>
       /\ UNCHANGED chargerVars
       /\ (Called /\ ret'[1].target = Target) => ret'[1].outcome = Outcome]_vars

C9_Witness ==
  /\ Called /\ Outcome.kind = "return" /\ IsFin(Outcome.value)
  /\ battery_capacity = Num(62) /\ battery_health = Num(90)
  /\ current_charge = Num(20) /\ charging_rate = Fin(14, 10)

\* C10: right after update_calculations completes, either both combobox
\* texts are known keys and the parsed health and current charge are in
\* [0,100], and the four labels show the results for exactly the inputs now
\* in the widgets, or the four labels are all empty.
InputsValid ==
  /\ battery_var \in DOMAIN BATTERY_CAPACITIES
  /\ charging_var \in DOMAIN CHARGING_RATES
  /\ InPercentRange(validate_number(health_var))
  /\ InPercentRange(validate_number(current_var))

DurationFor(target) ==
  ClosedForm(BATTERY_CAPACITIES[battery_var], validate_number(health_var),
             validate_number(current_var), CHARGING_RATES[charging_var],
             Num(target))

C10_LabelsAllOrNothing ==
  pc = "updated" =>
    IF InputsValid
    THEN /\ time_80_label = format_time(DurationFor(80))
         /\ time_100_label = format_time(DurationFor(100))
         /\ completion_80_label = calculate_completion_time(start_time, DurationFor(80))
         /\ completion_100_label = calculate_completion_time(start_time, DurationFor(100))
         /\ "" \notin {time_80_label, time_100_label, completion_80_label,
                       completion_100_label}
    ELSE /\ time_80_label = "" /\ time_100_label = ""
         /\ completion_80_label = "" /\ completion_100_label = ""

C10_Witness ==
  /\ pc = "updated"
  /\ health_var = <<"n", "a", "n">>
  /\ battery_var = "62 kWh"
  /\ time_80_label = "" /\ time_100_label = ""
  /\ completion_80_label = "" /\ completion_100_label = ""

====
